---- MODULE Spec2Model ----
(***************************************************************************)
(* Model of the dull-life simulation kernel (src/src/world.rs): validated  *)
(* construction of a DullWorld from a grid, and the sparse generation      *)
(* advance step() over the HashMap of living cells.                        *)
(*                                                                         *)
(* Rust indices are 0-based; a grid is a sequence of rows, so the cell at  *)
(* (row_index, col_index) is grid[row_index + 1][col_index + 1].           *)
(* A HashMap is a function whose DOMAIN is its set of keys.  The iteration *)
(* order of a HashMap is unspecified, so each `for` loop of step() is      *)
(* modelled one iteration at a time, the next entry being any entry not    *)
(* yet visited.                                                            *)
(***************************************************************************)
EXTENDS Integers, Sequences, FiniteSets, TLC

VARIABLES
    grid,                                 \* argument of from_config (moved into the call)
    result,                               \* "none", "ok" or the Err message of from_config
    rows,                                 \* DullWorld.rows
    cols,                                 \* DullWorld.cols
    living_cells,                         \* DullWorld.living_cells : key -> <<row, col>>
    pc,                                   \* position in the program
    todo,                                 \* keys the running `for` loop has not visited yet
    dead_cells_neighboring_living_cells,  \* local of step(): key -> <<count, <<row, col>>>>
    next_generation,                      \* local of step(): key -> <<row, col>>
    living_neighbors_count,               \* values returned by process_neighbors in this step(), by key
    returned,                             \* what the accessor called last since the last step() returned
    stage,                                \* main.rs: the schedule about to run ("none": the kernel alone)
    cell_material                         \* main.rs: Handle<ColorMaterial> of the Cell entities, by (row_index, col_index)

vars == <<grid, result, rows, cols, living_cells, pc, todo,
          dead_cells_neighboring_living_cells, next_generation, living_neighbors_count,
          returned, stage, cell_material>>

\* The state of main.rs around the kernel.
app_vars == <<stage, cell_material>>

----------------------------------------------------------------------------
(* Constants of world.rs *)

MIN_ROWS_ERROR == "Grid row must have a minimum length of 2"
MIN_COLS_ERROR == "Grid column must have a minimum length of 2"
COLS_LEN_CONSISTENCY_ERROR == "All grid columns must be of the same length"

MIN_ROWS == 2
MIN_COLS == 2

ROW_PRIME == 22283
\* Mutant of COL_PRIME: the same multiplier as for the rows.
COL_PRIME_same_as_row == ROW_PRIME

COL_PRIME == 19709

----------------------------------------------------------------------------
(* Constants of main.rs *)

\* setup_world builds vec![vec![0; ROWS]; COLS]: a grid of COLS rows of ROWS cells.
ROWS == 120
COLS == 240

----------------------------------------------------------------------------
(* Bounds of the model *)

\* Valid grids of every shape with at most MaxCells cells, every binary content.
MaxCells == 9
\* Arbitrary (possibly malformed) grids: at most MaxCfgRows rows of at most
\* MaxCfgCols cells each, cell values drawn from CellValues.
MaxCfgRows == 2
MaxCfgCols == 2
\* get_living_cells() is called on worlds of at most MaxListed live cells.
MaxListed == 3
\* step() is called on worlds of at most MaxLive live cells: every world of
\* a grid of at most MaxCells cells, and the worlds of the larger grids
\* until their population exceeds it.
MaxLive == 9
\* On a grid too large to visit every cell, the coordinates looked at are
\* those within MaxEdge of row 0 and column 0 and the last two rows and columns.
MaxEdge == 4
CellValues == {0, 1, 2}

----------------------------------------------------------------------------
(* HashMap *)

EmptyMap == <<>>

\* HashMap::insert: the value stored under an existing key is replaced.
Insert(map, key, value) ==
    [k \in (DOMAIN map) \cup {key} |-> IF k = key THEN value ELSE map[k]]

\* The values of a map, as a set.
Values(map) == {map[k] : k \in DOMAIN map}

----------------------------------------------------------------------------
(* Pure functions of world.rs *)

build_living_cell_key(row_index, col_index) ==
    row_index * ROW_PRIME + col_index * COL_PRIME

\* Mutant of build_map_from_row: the test of the cell is inverted, the cells
\* holding 0 are stored as living.
RECURSIVE build_map_from_row_inverted(_, _, _, _)
build_map_from_row_inverted(map, row, row_index, col_index) ==
    IF col_index >= Len(row) THEN map
    ELSE build_map_from_row_inverted(
            IF row[col_index + 1] = 0
            THEN Insert(map, build_living_cell_key(row_index, col_index),
                        <<row_index, col_index>>)
            ELSE map,
            row, row_index, col_index + 1)

\* The inner loop of build_map_from_grid over one row, from column col_index on.
RECURSIVE build_map_from_row(_, _, _, _)
build_map_from_row(map, row, row_index, col_index) ==
    IF col_index >= Len(row) THEN map
    ELSE build_map_from_row(
            IF row[col_index + 1] = 1
            THEN Insert(map, build_living_cell_key(row_index, col_index),
                        <<row_index, col_index>>)
            ELSE map,
            row, row_index, col_index + 1)

\* The outer loop of build_map_from_grid, from row row_index on.
RECURSIVE build_map_from_rows(_, _, _)
build_map_from_rows(map, g, row_index) ==
    IF row_index >= Len(g) THEN map
    ELSE build_map_from_rows(build_map_from_row(map, g[row_index + 1], row_index, 0),
                             g, row_index + 1)

\* Mutant of build_map_from_grid: the enumeration of the rows starts at 1.
build_map_from_grid_skipping_first_row(g) == build_map_from_rows(EmptyMap, g, 1)

build_map_from_grid(g) == build_map_from_rows(EmptyMap, g, 0)

\* Mutant of all_cols_match: the cell values are not looked at.
all_cols_match_lengths_only(g, ncols) ==
    \A i \in 1..Len(g) : Len(g[i]) = ncols

\* grid.iter().all(|col| col.len() == cols && col.iter().all(|&cell| cell == 0 || cell == 1))
all_cols_match(g, ncols) ==
    \A i \in 1..Len(g) :
        /\ Len(g[i]) = ncols
        /\ \A j \in 1..Len(g[i]) : g[i][j] = 0 \/ g[i][j] = 1

\* Mutant of from_config: a grid of one row passes the first check.
from_config_one_row(g) ==
    IF Len(g) < 1
    THEN [ok |-> FALSE, err |-> MIN_ROWS_ERROR]
    ELSE IF Len(g[1]) < MIN_COLS
    THEN [ok |-> FALSE, err |-> MIN_COLS_ERROR]
    ELSE IF ~all_cols_match(g, Len(g[1]))
    THEN [ok |-> FALSE, err |-> COLS_LEN_CONSISTENCY_ERROR]
    ELSE [ok |-> TRUE, rows |-> Len(g), cols |-> Len(g[1]),
          living_cells |-> build_map_from_grid(g)]

\* DullWorld::from_config: Err(message), or Ok(world).
from_config(g) ==
    IF Len(g) < MIN_ROWS
    THEN [ok |-> FALSE, err |-> MIN_ROWS_ERROR]
    ELSE IF Len(g[1]) < MIN_COLS
    THEN [ok |-> FALSE, err |-> MIN_COLS_ERROR]
    ELSE IF ~all_cols_match(g, Len(g[1]))
    THEN [ok |-> FALSE, err |-> COLS_LEN_CONSISTENCY_ERROR]
    ELSE [ok |-> TRUE, rows |-> Len(g), cols |-> Len(g[1]),
          living_cells |-> build_map_from_grid(g)]

----------------------------------------------------------------------------
(* Methods of DullWorld; `self` is the state (rows, cols, living_cells) *)

\* Mutant of dimensions: the two fields are returned in the other order.
dimensions_swapped == <<cols, rows>>

dimensions == <<rows, cols>>

\* HashMap::iter: the orders in which the entries under `keys` may be
\* visited.  The order depends on the hasher and its seed, so it is any one.
RECURSIVE iter(_)
iter(keys) ==
    IF keys = {} THEN {<<>>}
    ELSE UNION {{<<k>> \o order : order \in iter(keys \ {k})} : k \in keys}

\* .map(|(_, position)| *position).collect() over the entries visited in `order`.
collect_positions(order) == [i \in 1..Len(order) |-> living_cells[order[i]]]

\* The vectors get_living_cells() may return: one for each order of iteration.
get_living_cells == {collect_positions(order) : order \in iter(DOMAIN living_cells)}

is_live(row_index, col_index) ==
    build_living_cell_key(row_index, col_index) \in DOMAIN living_cells

\* Mutant of neighbor_positions: row - 1 and col - 1 saturate at 0 instead of
\* wrapping to the last row and column.
neighbor_positions_saturating(row, col) ==
    LET row_plus_one  == (row + 1) % rows
        row_minus_one == IF row = 0 THEN 0 ELSE row - 1
        col_plus_one  == (col + 1) % cols
        col_minus_one == IF col = 0 THEN 0 ELSE col - 1
    IN  << <<row_minus_one, col_minus_one>>,
           <<row_minus_one, col>>,
           <<row_minus_one, col_plus_one>>,
           <<row, col_minus_one>>,
           <<row, col_plus_one>>,
           <<row_plus_one, col_minus_one>>,
           <<row_plus_one, col>>,
           <<row_plus_one, col_plus_one>> >>

\* Mutant of neighbor_positions: row + 1 is reduced modulo cols.
neighbor_positions_row_modulo_cols(row, col) ==
    LET row_plus_one  == (row + 1) % cols
        row_minus_one == (row + rows - 1) % rows
        col_plus_one  == (col + 1) % cols
        col_minus_one == (col + cols - 1) % cols
    IN  << <<row_minus_one, col_minus_one>>,
           <<row_minus_one, col>>,
           <<row_minus_one, col_plus_one>>,
           <<row, col_minus_one>>,
           <<row, col_plus_one>>,
           <<row_plus_one, col_minus_one>>,
           <<row_plus_one, col>>,
           <<row_plus_one, col_plus_one>> >>

\* Mutant of neighbor_positions: the position of the cell itself is not left
\* out of the array.
neighbor_positions_with_self(row, col) ==
    LET row_plus_one  == (row + 1) % rows
        row_minus_one == (row + rows - 1) % rows
        col_plus_one  == (col + 1) % cols
        col_minus_one == (col + cols - 1) % cols
    IN  << <<row_minus_one, col_minus_one>>,
           <<row_minus_one, col>>,
           <<row_minus_one, col_plus_one>>,
           <<row, col_minus_one>>,
           <<row, col>>,
           <<row, col_plus_one>>,
           <<row_plus_one, col_minus_one>>,
           <<row_plus_one, col>>,
           <<row_plus_one, col_plus_one>> >>

\* Mutant of neighbor_positions: row + 1 and col + 1 are not reduced modulo
\* the dimensions.
neighbor_positions_unwrapped(row, col) ==
    LET row_plus_one  == row + 1
        row_minus_one == (row + rows - 1) % rows
        col_plus_one  == col + 1
        col_minus_one == (col + cols - 1) % cols
    IN  << <<row_minus_one, col_minus_one>>,
           <<row_minus_one, col>>,
           <<row_minus_one, col_plus_one>>,
           <<row, col_minus_one>>,
           <<row, col_plus_one>>,
           <<row_plus_one, col_minus_one>>,
           <<row_plus_one, col>>,
           <<row_plus_one, col_plus_one>> >>

\* The array neighbor_positions of process_neighbors.
neighbor_positions(row, col) ==
    LET row_plus_one  == (row + 1) % rows
        row_minus_one == (row + rows - 1) % rows
        col_plus_one  == (col + 1) % cols
        col_minus_one == (col + cols - 1) % cols
    IN  << <<row_minus_one, col_minus_one>>,
           <<row_minus_one, col>>,
           <<row_minus_one, col_plus_one>>,
           <<row, col_minus_one>>,
           <<row, col_plus_one>>,
           <<row_plus_one, col_minus_one>>,
           <<row_plus_one, col>>,
           <<row_plus_one, col_plus_one>> >>

\* Mutant of fold_neighbors: the early return for a living neighbour is
\* missing, so the neighbour is entered into the accumulator as well.
RECURSIVE fold_neighbors_no_return(_, _, _)
fold_neighbors_no_return(positions, count, dead) ==
    IF positions = <<>> THEN [count |-> count, dead |-> dead]
    ELSE LET position == Head(positions)
             next_key == build_living_cell_key(position[1], position[2])
             living   == next_key \in DOMAIN living_cells
         IN  IF next_key \in DOMAIN dead
             THEN fold_neighbors_no_return(Tail(positions),
                                 IF living THEN count + 1 ELSE count,
                                 [dead EXCEPT ![next_key] = <<dead[next_key][1] + 1, position>>])
             ELSE fold_neighbors_no_return(Tail(positions),
                                 IF living THEN count + 1 ELSE count,
                                 Insert(dead, next_key, <<1, position>>))

\* The fold of process_neighbors over the positions not yet visited.
RECURSIVE fold_neighbors(_, _, _)
fold_neighbors(positions, count, dead) ==
    IF positions = <<>> THEN [count |-> count, dead |-> dead]
    ELSE LET position == Head(positions)
             next_key == build_living_cell_key(position[1], position[2])
         IN  IF next_key \in DOMAIN living_cells
             THEN fold_neighbors(Tail(positions), count + 1, dead)
             ELSE IF next_key \in DOMAIN dead
             THEN fold_neighbors(Tail(positions), count,
                                 [dead EXCEPT ![next_key] = <<dead[next_key][1] + 1, position>>])
             ELSE fold_neighbors(Tail(positions), count,
                                 Insert(dead, next_key, <<1, position>>))

\* A sequence without the repeated occurrences of its elements.
RECURSIVE without_repeats(_)
without_repeats(seq) ==
    IF seq = <<>> THEN <<>>
    ELSE LET rest == without_repeats(Tail(seq))
         IN  IF \E i \in 1..Len(rest) : rest[i] = Head(seq)
             THEN rest
             ELSE <<Head(seq)>> \o rest

\* Mutant of process_neighbors: a cell that occupies several of the eight
\* neighbour positions (2-row or 2-column grids) is visited once.
process_neighbors_once_per_cell(row, col, dead) ==
    fold_neighbors(without_repeats(neighbor_positions(row, col)), 0, dead)

\* process_neighbors: the count returned and the accumulator as it leaves it.
process_neighbors(row, col, dead) ==
    fold_neighbors(neighbor_positions(row, col), 0, dead)

\* Mutant of survivor_iteration: only a live cell with 3 live neighbours is kept.
survivor_iteration_three_only(key, dead, next) ==
    LET position == living_cells[key]
        processed == process_neighbors(position[1], position[2], dead)
    IN  [count |-> processed.count,
         dead  |-> processed.dead,
         next  |-> IF processed.count # 3
                   THEN next
                   ELSE Insert(next, key, position)]

\* Mutant of survivor_iteration: a live cell with 4 live neighbours is kept.
survivor_iteration_up_to_four(key, dead, next) ==
    LET position == living_cells[key]
        processed == process_neighbors(position[1], position[2], dead)
    IN  [count |-> processed.count,
         dead  |-> processed.dead,
         next  |-> IF processed.count < 2 \/ processed.count > 4
                   THEN next
                   ELSE Insert(next, key, position)]

\* One iteration of the first loop of step() on the entry under `key`.
survivor_iteration(key, dead, next) ==
    LET position == living_cells[key]
        processed == process_neighbors(position[1], position[2], dead)
    IN  [count |-> processed.count,
         dead  |-> processed.dead,
         next  |-> IF processed.count # 2 /\ processed.count # 3
                   THEN next
                   ELSE Insert(next, key, position)]

\* Mutant of birth_iteration: a dead cell with 3 or more live neighbours is born.
birth_iteration_three_or_more(key, dead, next) ==
    IF dead[key][1] < 3 THEN next ELSE Insert(next, key, dead[key][2])

\* One iteration of the second loop of step() on the entry under `key`.
birth_iteration(key, dead, next) ==
    IF dead[key][1] # 3 THEN next ELSE Insert(next, key, dead[key][2])

\* The largest value of LivingCellsCount = u8.
U8_MAX == 255

\* The arithmetic of the iteration of the first loop on the entry under `key`
\* leaves its type: row + rows - 1 or col + cols - 1 below 0 (usize), or a
\* count above U8_MAX (u8).  `it` is the outcome of the iteration computed on
\* the integers; the counts only grow, so a count that left u8 shows in it.
arithmetic_overflow(key, it) ==
    \/ living_cells[key][1] + rows - 1 < 0
    \/ living_cells[key][2] + cols - 1 < 0
    \/ it.count > U8_MAX
    \/ \E k \in DOMAIN it.dead : it.dead[k][1] > U8_MAX

\* The first loop of step() run to its end, visiting the entries under the
\* keys of `order` in that order.
RECURSIVE survivor_pass(_, _, _)
survivor_pass(order, dead, next) ==
    IF order = <<>> THEN [dead |-> dead, next |-> next]
    ELSE LET it == survivor_iteration(Head(order), dead, next)
         IN  survivor_pass(Tail(order), it.dead, it.next)

\* The second loop of step() run to its end, visiting the entries under the
\* keys of `order` in that order.
RECURSIVE birth_pass(_, _, _)
birth_pass(order, dead, next) ==
    IF order = <<>> THEN next
    ELSE birth_pass(Tail(order), dead, birth_iteration(Head(order), dead, next))

\* The map step() assigns to self.living_cells when its first loop visits
\* the live cells in the order `first` and its second loop the accumulator
\* in the order `second`.
step(first, second) ==
    LET survivors == survivor_pass(first, EmptyMap, EmptyMap)
    IN  birth_pass(second, survivors.dead, survivors.next)

----------------------------------------------------------------------------
(* Inputs *)

\* The grids of the tests of world.rs that the enumerated sets do not hold.
TestGrids ==
    { << <<0, 0>>, <<0, 0, 0>> >>,
      << <<0, 0, 0, 0, 0>>, <<0, 1, 1, 1, 0>>, <<0, 0, 0, 0, 0>> >>,
      << <<0, 0, 0, 0, 0>>, <<0, 0, 1, 0, 0>>, <<0, 0, 1, 0, 0>>,
         <<0, 0, 1, 0, 0>>, <<0, 0, 0, 0, 0>> >>,
      << <<0, 0, 0, 0, 0>>, <<0, 0, 1, 0, 0>>, <<0, 1, 1, 1, 0>>,
         <<0, 0, 1, 0, 0>>, <<0, 0, 0, 0, 0>> >> }

\* The grid of the given shape whose cells at the positions `live` hold 1.
GridOf(nrows, ncols, live) ==
    [i \in 1..nrows |-> [j \in 1..ncols |-> IF <<i - 1, j - 1>> \in live THEN 1 ELSE 0]]

\* Grids of other shapes with rows >= 3 and cols >= 3: on the 4x4 grid, the
\* cross of the test it_should_die_if_more_than_three_live_neighbours with a
\* sixth cell diagonal to none of its arms, and a 3x4 grid with five live cells.
SampleGrids ==
    { GridOf(4, 4, {<<0, 1>>, <<1, 0>>, <<1, 1>>, <<1, 2>>, <<2, 1>>, <<3, 3>>}),
      GridOf(3, 4, {<<0, 0>>, <<0, 1>>, <<1, 1>>, <<1, 3>>, <<2, 2>>}) }

CfgRows == UNION {[1..n -> CellValues] : n \in 0..MaxCfgCols}
CfgGrids == UNION {[1..n -> CfgRows] : n \in 0..MaxCfgRows}

ValidGrids ==
    UNION {[1..r -> [1..c -> {0, 1}]] :
              <<r, c>> \in {s \in (MIN_ROWS..MaxCells) \X (MIN_COLS..MaxCells) :
                               s[1] * s[2] <= MaxCells}}

InputGrids == CfgGrids \cup ValidGrids \cup TestGrids \cup SampleGrids

\* Shapes too large for a grid to be written out: the smallest one holding
\* two coordinates with the same key, (0, ROW_PRIME) and (COL_PRIME, 0), and
\* the two shapes one row and one column smaller.
KeyShapes ==
    { <<COL_PRIME + 1, ROW_PRIME + 1>>,
      <<COL_PRIME, ROW_PRIME + 1>>,
      <<COL_PRIME + 1, ROW_PRIME>> }

\* The four corners of a grid of the given shape, neighbours of one another
\* on the torus.
Corners(shape) == {0, shape[1] - 1} \X {0, shape[2] - 1}

\* The grids of a shape of KeyShapes, by the positions of their ones: at any
\* of the corners, or at (0, 0) and (rows - 2, 1), which have the dead
\* neighbour (rows - 1, 0) in common.
KeyOnes(shape) ==
    (SUBSET Corners(shape)) \cup {{<<0, 0>>, <<shape[1] - 2, 1>>}}

\* build_map_from_grid on the grid whose cells at the positions `ones` hold 1
\* and the others 0: the positions are inserted row by row, each row by
\* ascending column.
RECURSIVE build_map_from_ones(_, _)
build_map_from_ones(ones, map) ==
    IF ones = {} THEN map
    ELSE LET first == CHOOSE x \in ones : \A y \in ones :
                          \/ x[1] < y[1]
                          \/ x[1] = y[1] /\ x[2] <= y[2]
         IN  build_map_from_ones(ones \ {first},
                 Insert(map, build_living_cell_key(first[1], first[2]), first))

----------------------------------------------------------------------------
(* State machine *)

\* No accessor has returned a value: the accessor called, and a field for the
\* value of each accessor (the default of its type while it has not returned).
NoReturn ==
    [call |-> "none", is_live |-> FALSE, get_living_cells |-> <<>>,
     dimensions |-> <<0, 0>>]

Init ==
    /\ grid \in InputGrids
    /\ result = "none"
    /\ rows = 0
    /\ cols = 0
    /\ living_cells = EmptyMap
    /\ pc = "new"
    /\ todo = {}
    /\ dead_cells_neighboring_living_cells = EmptyMap
    /\ next_generation = EmptyMap
    /\ living_neighbors_count = EmptyMap
    /\ returned = NoReturn
    /\ stage = "none"
    /\ cell_material = EmptyMap

\* DullWorld::from_config(grid)
FromConfig ==
    /\ pc = "new"
    /\ LET r == from_config(grid)
       IN  IF r.ok
           THEN /\ result' = "ok"
                /\ rows' = r.rows
                /\ cols' = r.cols
                /\ living_cells' = r.living_cells
                /\ pc' = "idle"
           ELSE /\ result' = r.err
                /\ pc' = "failed"
                /\ UNCHANGED <<rows, cols, living_cells>>
    /\ grid' = <<>>
    /\ UNCHANGED <<todo, dead_cells_neighboring_living_cells, next_generation,
                   living_neighbors_count, returned, app_vars>>

\* step(): the two new maps, and the start of the first loop.
StepBegin ==
    /\ pc = "idle"
    /\ Cardinality(DOMAIN living_cells) <= MaxLive
    /\ dead_cells_neighboring_living_cells' = EmptyMap
    /\ next_generation' = EmptyMap
    /\ living_neighbors_count' = EmptyMap
    /\ todo' = DOMAIN living_cells
    /\ pc' = "survivors"
    /\ returned' = NoReturn
    /\ UNCHANGED <<grid, result, rows, cols, living_cells, app_vars>>

\* step(): one iteration of `for (key, (row_index, col_index)) in self.living_cells.iter()`.
SurvivorPass ==
    /\ pc = "survivors"
    /\ \E key \in todo :
          LET it == survivor_iteration(key, dead_cells_neighboring_living_cells,
                                       next_generation)
          IN  /\ dead_cells_neighboring_living_cells' = it.dead
              /\ next_generation' = it.next
              /\ living_neighbors_count' = Insert(living_neighbors_count, key, it.count)
              /\ todo' = todo \ {key}
              /\ pc' = IF arithmetic_overflow(key, it) THEN "panicked" ELSE pc
    /\ UNCHANGED <<grid, result, rows, cols, living_cells, returned, app_vars>>

\* step(): the first loop is exhausted, the second one starts.
SurvivorPassDone ==
    /\ pc = "survivors"
    /\ todo = {}
    /\ todo' = DOMAIN dead_cells_neighboring_living_cells
    /\ pc' = "births"
    /\ UNCHANGED <<grid, result, rows, cols, living_cells,
                   dead_cells_neighboring_living_cells, next_generation,
                   living_neighbors_count, returned, app_vars>>

\* step(): one iteration of the loop over dead_cells_neighboring_living_cells.iter().
BirthPass ==
    /\ pc = "births"
    /\ \E key \in todo :
          /\ next_generation' = birth_iteration(key, dead_cells_neighboring_living_cells,
                                                next_generation)
          /\ todo' = todo \ {key}
    /\ UNCHANGED <<grid, result, rows, cols, living_cells, pc,
                   dead_cells_neighboring_living_cells, living_neighbors_count,
                   returned, app_vars>>

\* step(): the second loop is exhausted; self.living_cells = next_generation.
StepEnd ==
    /\ pc = "births"
    /\ todo = {}
    /\ living_cells' = next_generation
    /\ pc' = "idle"
    /\ UNCHANGED <<grid, result, rows, cols, todo,
                   dead_cells_neighboring_living_cells, next_generation,
                   living_neighbors_count, returned, app_vars>>

\* What the accessors leave alone: everything but the value handed back.
accessor_frame ==
    UNCHANGED <<grid, result, rows, cols, living_cells, pc, todo,
                dead_cells_neighboring_living_cells, next_generation,
                living_neighbors_count, app_vars>>

\* is_live(row_index, col_index) on an in-range coordinate.
IsLive ==
    /\ pc = "idle"
    /\ \E row_index \in 0..(rows - 1), col_index \in 0..(cols - 1) :
          returned' = [NoReturn EXCEPT !.call = "is_live",
                                          !.is_live = is_live(row_index, col_index)]
    /\ accessor_frame

\* get_living_cells() on a world of at most MaxListed live cells: the vector
\* of any order of iteration.
GetLivingCells ==
    /\ pc = "idle"
    /\ Cardinality(DOMAIN living_cells) <= MaxListed
    /\ \E listed \in get_living_cells :
          returned' = [NoReturn EXCEPT !.call = "get_living_cells",
                                        !.get_living_cells = listed]
    /\ accessor_frame

\* dimensions()
Dimensions ==
    /\ pc = "idle"
    /\ returned' = [NoReturn EXCEPT !.call = "dimensions", !.dimensions = dimensions]
    /\ accessor_frame

Next ==
    \/ FromConfig
    \/ StepBegin
    \/ SurvivorPass
    \/ SurvivorPassDone
    \/ BirthPass
    \/ StepEnd
    \/ IsLive
    \/ GetLivingCells
    \/ Dimensions

Spec == Init /\ [][Next]_vars

----------------------------------------------------------------------------
(* The application of main.rs: the schedules Startup, Update and PostUpdate *)

\* The materials setup_world adds: Color::GREEN and Color::PURPLE.
CellLiveColor == "GREEN"
CellDeadColor == "PURPLE"

\* Before the Startup schedule: random_world is any rectangular grid of 0
\* and 1 that rng may produce, here of the bounded shapes.
InitRender ==
    /\ grid \in ValidGrids \cup SampleGrids
    /\ result = "none"
    /\ rows = 0
    /\ cols = 0
    /\ living_cells = EmptyMap
    /\ pc = "new"
    /\ todo = {}
    /\ dead_cells_neighboring_living_cells = EmptyMap
    /\ next_generation = EmptyMap
    /\ living_neighbors_count = EmptyMap
    /\ returned = NoReturn
    /\ stage = "Startup"
    /\ cell_material = EmptyMap

\* setup_world: the world of random_world, and one Cell entity per
\* coordinate of dimensions() with the material of its liveness.
SetupWorld ==
    /\ stage = "Startup"
    /\ pc = "new"
    /\ LET r == from_config(grid)
       IN  IF r.ok
           THEN /\ result' = "ok"
                /\ rows' = r.rows
                /\ cols' = r.cols
                /\ living_cells' = r.living_cells
                /\ pc' = "idle"
                /\ LET row_len == dimensions'[1]
                       col_len == dimensions'[2]
                   IN  cell_material' =
                           [cell \in (0..(row_len - 1)) \X (0..(col_len - 1)) |->
                               IF is_live(cell[1], cell[2])'
                               THEN CellLiveColor
                               ELSE CellDeadColor]
                /\ stage' = "Update"
           ELSE /\ result' = r.err
                /\ pc' = "panicked"
                /\ UNCHANGED <<rows, cols, living_cells, app_vars>>
    /\ grid' = <<>>
    /\ UNCHANGED <<todo, dead_cells_neighboring_living_cells, next_generation,
                   living_neighbors_count, returned>>

\* update_world: when the timer has just finished, step() is called (on a
\* world of at most MaxLive live cells) and its first loop starts; otherwise
\* the system returns at once.
UpdateWorld ==
    /\ stage = "Update"
    /\ pc = "idle"
    /\ \E just_finished \in {b \in BOOLEAN : b => Cardinality(DOMAIN living_cells) <= MaxLive} :
          IF just_finished
          THEN /\ dead_cells_neighboring_living_cells' = EmptyMap
               /\ next_generation' = EmptyMap
               /\ living_neighbors_count' = EmptyMap
               /\ todo' = DOMAIN living_cells
               /\ pc' = "survivors"
               /\ stage' = "update_world"
          ELSE /\ stage' = "PostUpdate"
               /\ UNCHANGED <<dead_cells_neighboring_living_cells, next_generation,
                              living_neighbors_count, todo, pc>>
    /\ UNCHANGED <<grid, result, rows, cols, living_cells, returned, cell_material>>

\* update_world: step() has returned, and the system returns.
UpdateWorldReturns ==
    /\ stage = "update_world"
    /\ pc = "idle"
    /\ stage' = "PostUpdate"
    /\ UNCHANGED <<grid, result, rows, cols, living_cells, pc, todo,
                   dead_cells_neighboring_living_cells, next_generation,
                   living_neighbors_count, returned, cell_material>>

\* render_world: the material of every Cell entity is assigned again.
RenderWorld ==
    /\ stage = "PostUpdate"
    /\ pc = "idle"
    /\ cell_material' =
           [cell \in DOMAIN cell_material |->
               IF is_live(cell[1], cell[2])
               THEN CellDeadColor
               ELSE CellLiveColor]
    /\ stage' = "Update"
    /\ UNCHANGED <<grid, result, rows, cols, living_cells, pc, todo,
                   dead_cells_neighboring_living_cells, next_generation,
                   living_neighbors_count, returned>>

NextRender ==
    \/ SetupWorld
    \/ UpdateWorld
    \/ SurvivorPass
    \/ SurvivorPassDone
    \/ BirthPass
    \/ StepEnd
    \/ UpdateWorldReturns
    \/ RenderWorld

SpecRender == InitRender /\ [][NextRender]_vars

-----------------------------------------------------------------------------
(* The kernel on the grids of the shapes KeyShapes *)

\* The world from_config returns for a grid of a shape of KeyShapes whose
\* ones are at the positions of one of KeyOnes.
InitKeys ==
    /\ grid = <<>>
    /\ result = "ok"
    /\ \E shape \in KeyShapes :
          /\ rows = shape[1]
          /\ cols = shape[2]
          /\ \E ones \in KeyOnes(shape) :
                living_cells = build_map_from_ones(ones, EmptyMap)
    /\ pc = "idle"
    /\ todo = {}
    /\ dead_cells_neighboring_living_cells = EmptyMap
    /\ next_generation = EmptyMap
    /\ living_neighbors_count = EmptyMap
    /\ returned = NoReturn
    /\ stage = "none"
    /\ cell_material = EmptyMap

NextKeys ==
    \/ StepBegin
    \/ SurvivorPass
    \/ SurvivorPassDone
    \/ BirthPass
    \/ StepEnd
    \/ GetLivingCells

SpecKeys == InitKeys /\ [][NextKeys]_vars

-----------------------------------------------------------------------------

(* Vocabulary of the properties *)

\* The set of live coordinates of a map of living cells.
LiveSet(map) == Values(map)

\* Every coordinate of the grid of the world.
Cells == (0..(rows - 1)) \X (0..(cols - 1))

\* The in-range coordinates looked at: every one on a grid of at most
\* MaxEdge + 1 rows and columns, and those near the edges on a larger grid.
Coordinates ==
    {p \in ((0..MaxEdge) \cup {rows - 2, rows - 1}) \X
            ((0..MaxEdge) \cup {cols - 2, cols - 1}) :
        /\ p[1] \in 0..(rows - 1)
        /\ p[2] \in 0..(cols - 1)}

\* The eight offsets (dr, dc) # (0, 0).
Offsets == ({-1, 0, 1} \X {-1, 0, 1}) \ {<<0, 0>>}

\* The cell at offset o of cell p on the torus.
Wrapped(p, o) == <<(p[1] + o[1] + rows) % rows, (p[2] + o[2] + cols) % cols>>

\* Dense count: the number of offsets whose wrapped cell is in live.
OffsetCount(live, p) == Cardinality({o \in Offsets : Wrapped(p, o) \in live})

\* Dense double-buffered full scan of the grid.
DenseStep(live) ==
    {p \in Cells : IF p \in live
                   THEN OffsetCount(live, p) = 2 \/ OffsetCount(live, p) = 3
                   ELSE OffsetCount(live, p) = 3}

\* The toroidal neighbours of p, as a set of cells, and how many are in live.
ToroidalNeighbours(p) == {Wrapped(p, o) : o \in Offsets}
LiveNeighbours(live, p) == Cardinality(ToroidalNeighbours(p) \cap live)

\* A step of the state machine that is the return of step().
StepReturns == pc = "births" /\ pc' = "idle"

\* A step of the state machine that is the return of from_config().
FromConfigReturns == pc = "new" /\ pc' # "new"

\* The keys of a set in ascending order, one of the orders of iter.
RECURSIVE ascending(_)
ascending(keys) ==
    IF keys = {} THEN <<>>
    ELSE LET least == CHOOSE x \in keys : \A y \in keys : x <= y
         IN  <<least>> \o ascending(keys \ {least})

\* A step of the state machine that is a call of an accessor.
AccessorCall == pc = "idle" /\ pc' = "idle"

\* A call of step() on a world with live cells has returned.
Stepped == pc = "idle" /\ living_neighbors_count # EmptyMap

KeysOf(positions) == {build_living_cell_key(p[1], p[2]) : p \in positions}

----------------------------------------------------------------------------
(* Properties *)

Ones(g) ==
    {p \in UNION {{<<i - 1, j - 1>> : j \in 1..Len(g[i])} : i \in 1..Len(g)} :
        g[p[1] + 1][p[2] + 1] = 1}

\* The elements of a sequence, and whether it holds none of them twice.
Elements(seq) == {seq[i] : i \in 1..Len(seq)}
NoDuplicates(seq) == Cardinality(Elements(seq)) = Len(seq)

VerticalLine5x5 == {<<1, 2>>, <<2, 2>>, <<3, 2>>}
HorizontalLine5x5 == {<<2, 1>>, <<2, 2>>, <<2, 3>>}

SameAsAscending ==
    /\ pc = "survivors" =>
          LET ordered == survivor_pass(ascending((DOMAIN living_cells) \ todo),
                                       EmptyMap, EmptyMap)
          IN  /\ dead_cells_neighboring_living_cells = ordered.dead
              /\ next_generation = ordered.next
    /\ pc = "births" =>
          LET ordered == survivor_pass(ascending(DOMAIN living_cells), EmptyMap, EmptyMap)
          IN  /\ dead_cells_neighboring_living_cells = ordered.dead
              /\ next_generation =
                    birth_pass(ascending((DOMAIN ordered.dead) \ todo),
                               ordered.dead, ordered.next)

\* C5 as stated: for a fixed generation, the live set step() produces is the
\* same for every order in which the first loop visits the live cells and
\* every order in which the second loop visits the accumulator: it is the
\* one produced when both visit their entries in ascending key order.
C5_OrderIndependent ==
    (pc = "births" /\ todo = {}) =>
        next_generation =
            step(ascending(DOMAIN living_cells),
                 ascending(DOMAIN dead_cells_neighboring_living_cells))

\* What does hold: on the shapes where no two in-range coordinates can have
\* the same key, those of at most COL_PRIME rows or at most ROW_PRIME
\* columns, the maps of step() are the same for every order, at every
\* iteration of the two loops.
OrderIndependentOnSmallerShapes ==
    (rows <= COL_PRIME \/ cols <= ROW_PRIME) =>
        (SameAsAscending /\ C5_OrderIndependent)

\* from_config produced no World.
NoWorld == pc = "failed" /\ rows = 0 /\ cols = 0 /\ living_cells = EmptyMap

\* C6: from_config fails with the too-few-rows error on every grid of fewer
\* than 2 rows, and with the too-few-columns error on every grid of at least
\* 2 rows whose first row has fewer than 2 cells, whatever the rows hold; no
\* World is produced.
C6_ChecksInOrder ==
    [][pc = "new" =>
          /\ Len(grid) < 2 => (result' = MIN_ROWS_ERROR /\ NoWorld')
          /\ (Len(grid) >= 2 /\ Len(grid[1]) < 2) =>
                (result' = MIN_COLS_ERROR /\ NoWorld')]_vars

\* C6 witness: from_config has failed with the too-few-columns error.
C6_Witness == result = MIN_COLS_ERROR /\ NoWorld

\* The rows of g are not all of equal length, or a cell is neither 0 nor 1.
Malformed(g) ==
    \/ \E i, j \in 1..Len(g) : Len(g[i]) # Len(g[j])
    \/ \E i \in 1..Len(g) : \E j \in 1..Len(g[i]) : g[i][j] \notin {0, 1}

\* C7 as stated: from_config fails with COLS_LEN_CONSISTENCY_ERROR on every
\* grid whose rows differ in length or that holds a value outside {0, 1}.
C7_Original ==
    [][(pc = "new" /\ Malformed(grid)) => result' = COLS_LEN_CONSISTENCY_ERROR]_vars

\* C7 amended: from_config fails with COLS_LEN_CONSISTENCY_ERROR on every
\* grid of at least 2 rows, whose first row has at least 2 cells, and whose
\* rows differ in length or that holds a value outside {0, 1}.
C7_Amended ==
    [][(pc = "new" /\ Len(grid) >= 2 /\ Len(grid[1]) >= 2 /\ Malformed(grid)) =>
          (result' = COLS_LEN_CONSISTENCY_ERROR /\ NoWorld')]_vars

\* C7 witness: from_config has failed with COLS_LEN_CONSISTENCY_ERROR.
C7_Witness == result = COLS_LEN_CONSISTENCY_ERROR /\ NoWorld

\* C8 as stated: between the calls of step(), for every in-range coordinate
\* looked at, is_live is true iff the coordinate is one of those
\* get_living_cells() returns, in whatever order it returns them.
C8_IsLiveIffListed ==
    [][(AccessorCall /\ returned'.call = "get_living_cells") =>
          \A p \in Coordinates :
              is_live(p[1], p[2]) <=> (p \in Elements(returned'.get_living_cells))]_vars

\* What does hold: the same on the shapes where no two in-range coordinates
\* can have the same key, those of at most COL_PRIME rows or at most
\* ROW_PRIME columns.
IsLiveIffListedOnSmallerShapes ==
    [][(/\ AccessorCall
        /\ returned'.call = "get_living_cells"
        /\ (rows <= COL_PRIME \/ cols <= ROW_PRIME)) =>
          \A p \in Coordinates :
              is_live(p[1], p[2]) <=> (p \in Elements(returned'.get_living_cells))]_vars

\* C9: the count step() computes for a live cell is the number of the eight
\* offsets whose cell, taken modulo rows and cols, is alive; so when (0, 0)
\* and (rows-1, cols-1) are both alive the count of (0, 0) includes
\* (rows-1, cols-1), which is one of its neighbour positions.
C9_ToroidalWrap ==
    pc \in {"survivors", "births"} =>
        \A k \in DOMAIN living_neighbors_count :
            /\ living_neighbors_count[k] = OffsetCount(LiveSet(living_cells), living_cells[k])
            /\ (living_cells[k] = <<0, 0>> /\ is_live(rows - 1, cols - 1)) =>
                  /\ living_neighbors_count[k] >= 1
                  /\ \E i \in 1..8 : neighbor_positions(0, 0)[i] = <<rows - 1, cols - 1>>

\* C9 witness: on a grid with rows, cols >= 3 where only (0, 0) and
\* (rows-1, cols-1) are alive, the first loop has counted 1 for (0, 0).
C9_Witness ==
    /\ pc = "survivors"
    /\ rows >= 3
    /\ cols >= 3
    /\ LiveSet(living_cells) = {<<0, 0>>, <<rows - 1, cols - 1>>}
    /\ build_living_cell_key(0, 0) \in DOMAIN living_neighbors_count
    /\ living_neighbors_count[build_living_cell_key(0, 0)] = 1

HorizontalLine3x5 == {<<1, 1>>, <<1, 2>>, <<1, 3>>}
VerticalLine3x5 == {<<0, 2>>, <<1, 2>>, <<2, 2>>}

\* The tally of the dead cell p in the accumulator is n.
Tally(p, n) ==
    LET k == build_living_cell_key(p[1], p[2])
    IN  /\ k \in DOMAIN dead_cells_neighboring_living_cells
        /\ dead_cells_neighboring_living_cells[k] = <<n, p>>

\* C10: from (1,1),(1,2),(1,3) on the 3x5 grid, step() counts 2 for the
\* centre and 1 for each end, tallies 3 for the dead cells above and below
\* the centre, and leaves exactly (0,2),(1,2),(2,2) alive.
C10_Scenario2 ==
    [][(StepReturns /\ rows = 3 /\ cols = 5
            /\ LiveSet(living_cells) = HorizontalLine3x5) =>
          /\ living_neighbors_count[build_living_cell_key(1, 2)] = 2
          /\ living_neighbors_count[build_living_cell_key(1, 1)] = 1
          /\ living_neighbors_count[build_living_cell_key(1, 3)] = 1
          /\ Tally(<<0, 2>>, 3)
          /\ Tally(<<2, 2>>, 3)
          /\ LiveSet(living_cells') = VerticalLine3x5]_vars

\* C10 witness: step() has returned on the 3x5 grid, started from the
\* horizontal line, with the vertical line alive.
C10_Witness ==
    /\ Stepped
    /\ rows = 3
    /\ cols = 5
    /\ DOMAIN living_neighbors_count = KeysOf(HorizontalLine3x5)
    /\ LiveSet(living_cells) = VerticalLine3x5

\* The nine cells of the columns 1 to 3 of the 3x5 grid.
Block3x5 == (0..2) \X (1..3)

\* C11 as stated: on the 3x5 grid the horizontal and the vertical line
\* alternate, step() turning each into the other.
C11_Original ==
    [][(StepReturns /\ rows = 3 /\ cols = 5) =>
          /\ LiveSet(living_cells) = HorizontalLine3x5 =>
                LiveSet(living_cells') = VerticalLine3x5
          /\ LiveSet(living_cells) = VerticalLine3x5 =>
                LiveSet(living_cells') = HorizontalLine3x5]_vars

\* C11 amended: on the 3x5 grid the vertical line (0,2),(1,2),(2,2), which
\* spans every row of the torus, does not turn back into the horizontal
\* line: step() keeps its three cells and gives birth to the six cells of the
\* columns 1 and 3, and no step() on this grid leaves the horizontal line.
C11_Amended ==
    [][(StepReturns /\ rows = 3 /\ cols = 5) =>
          /\ LiveSet(living_cells) = VerticalLine3x5 =>
                LiveSet(living_cells') = Block3x5
          /\ LiveSet(living_cells) \in {VerticalLine3x5, Block3x5} =>
                LiveSet(living_cells') # HorizontalLine3x5]_vars

\* C11 witness: step() has returned on the 3x5 grid, started from the
\* vertical line, with the nine cells of the columns 1 to 3 alive.
C11_Witness ==
    /\ Stepped
    /\ rows = 3
    /\ cols = 5
    /\ DOMAIN living_neighbors_count = KeysOf(VerticalLine3x5)
    /\ LiveSet(living_cells) = Block3x5

\* C12: a world constructed from a fully dead grid has no live cell, and
\* once the live set is empty no step of step() creates a live cell: the
\* live set stays empty, and so do the accumulator and next_generation of
\* every step() on it.
C12_EmptyStaysEmpty ==
    [][/\ (FromConfigReturns /\ result' = "ok" /\ Ones(grid) = {}) =>
             living_cells' = EmptyMap
       /\ (result = "ok" /\ living_cells = EmptyMap) =>
             /\ living_cells' = EmptyMap
             /\ pc' \in {"survivors", "births"} =>
                   /\ next_generation' = EmptyMap
                   /\ dead_cells_neighboring_living_cells' = EmptyMap]_vars

\* C12 witness: both loops of a step() on the 3x3 world without live cells
\* are exhausted.
C12_Witness ==
    /\ pc = "births"
    /\ todo = {}
    /\ rows = 3
    /\ cols = 3
    /\ living_cells = EmptyMap
    /\ next_generation = EmptyMap

\* C13: rows and cols are those of the grid given to from_config and no
\* later step changes them, so dimensions() returns the same pair after any
\* sequence of calls; step() leaves rows and cols alone, and is_live(),
\* get_living_cells() and dimensions() change nothing of the world.
C13_Frame ==
    [][/\ (FromConfigReturns /\ result' = "ok") =>
             dimensions' = <<Len(grid), Len(grid[1])>>
       /\ result = "ok" =>
             /\ rows' = rows
             /\ cols' = cols
             /\ dimensions' = dimensions
       /\ AccessorCall =>
             /\ living_cells' = living_cells
             /\ UNCHANGED <<result, todo, dead_cells_neighboring_living_cells,
                            next_generation, living_neighbors_count>>
       /\ (AccessorCall /\ returned'.call = "dimensions") =>
             returned'.dimensions = <<rows, cols>>]_vars

\* C13 witness: after from_config on a 3x5 grid and a step() that left live
\* cells, dimensions() has returned (3, 5).
C13_Witness ==
    /\ Stepped
    /\ living_cells # EmptyMap
    /\ returned.call = "dimensions"
    /\ returned.dimensions = <<3, 5>>

KeysDistinct(nrows, ncols) ==
    Cardinality({build_living_cell_key(r, c) : r \in 0..(nrows - 1), c \in 0..(ncols - 1)})
        = nrows * ncols

\* The keys of the grid of main.rs (240 rows of 120 cells) are distinct.
KeysDistinctInApp == KeysDistinct(COLS, ROWS)

\* The dead cells next to a live cell the first loop has visited.
DeadNeighboursOfVisited ==
    {p \in UNION {ToroidalNeighbours(living_cells[k]) : k \in DOMAIN living_neighbors_count} :
        p \notin LiveSet(living_cells)}

\* C15: distinct in-range coordinates have distinct keys, on the 240x120 grid
\* of main.rs and on the grid of the world; so every entry of the live set,
\* of next_generation and of the accumulator is stored under the key of its
\* own coordinate, and no insert replaced the entry of another cell: the
\* accumulator holds every dead neighbour of the live cells visited.
C15_KeysUnique ==
    /\ KeysDistinctInApp
    /\ result = "ok" => KeysDistinct(rows, cols)
    /\ \A k \in DOMAIN living_cells :
          k = build_living_cell_key(living_cells[k][1], living_cells[k][2])
    /\ \A k \in DOMAIN next_generation :
          k = build_living_cell_key(next_generation[k][1], next_generation[k][2])
    /\ \A k \in DOMAIN dead_cells_neighboring_living_cells :
          LET p == dead_cells_neighboring_living_cells[k][2]
          IN  k = build_living_cell_key(p[1], p[2])
    /\ pc \in {"survivors", "births"} =>
          {dead_cells_neighboring_living_cells[k][2] :
              k \in DOMAIN dead_cells_neighboring_living_cells} = DeadNeighboursOfVisited

\* C15 witness: on the 4x4 grid the first loop of step() is exhausted with
\* entries in next_generation and entries in the accumulator whose row and
\* column differ.
C15_Witness ==
    /\ pc = "births"
    /\ rows = 4
    /\ cols = 4
    /\ next_generation # EmptyMap
    /\ \E k \in DOMAIN dead_cells_neighboring_living_cells :
          LET p == dead_cells_neighboring_living_cells[k][2]
          IN  p[1] # p[2]

\* C16 as stated: when the first loop of step() is exhausted, the tally of
\* every dead cell of the accumulator is the number of distinct live cells
\* among its toroidal neighbours, on every valid grid, the grids of 2 rows or
\* 2 columns included.
C16_TallyIsDistinctLiveNeighbours ==
    pc = "births" =>
        \A k \in DOMAIN dead_cells_neighboring_living_cells :
            LET entry == dead_cells_neighboring_living_cells[k]
            IN  entry[1] = LiveNeighbours(LiveSet(living_cells), entry[2])

\* The cells with an entry in the accumulator.
Candidates ==
    {dead_cells_neighboring_living_cells[k][2] :
        k \in DOMAIN dead_cells_neighboring_living_cells}

C18_LiveSetInRange ==
    result = "ok" =>
        /\ LiveSet(living_cells) \subseteq Cells
        /\ \A k \in DOMAIN living_cells :
              build_living_cell_key(living_cells[k][1], living_cells[k][2]) = k
        /\ Cardinality(DOMAIN living_cells) <= rows * cols

\* C18 witness: a step() has returned a live set holding a cell of the last
\* row and a cell of the last column that the previous generation, whose
\* cells of row 0 and column 0 are their neighbours across the edge, did
\* not hold.
C18_Witness ==
    /\ Stepped
    /\ \E p \in LiveSet(living_cells) :
          /\ p[1] = rows - 1
          /\ build_living_cell_key(p[1], p[2]) \notin DOMAIN living_neighbors_count
    /\ \E p \in LiveSet(living_cells) :
          /\ p[2] = cols - 1
          /\ build_living_cell_key(p[1], p[2]) \notin DOMAIN living_neighbors_count
    /\ \E k \in DOMAIN living_neighbors_count : living_neighbors_count[k] > 0

\* C19 as stated: after every run of render_world each Cell entity carries
\* the live colour iff is_live is true of its (row_index, col_index), the
\* mapping of setup_world.
C19_RenderMatchesLiveness ==
    [][RenderWorld =>
          \A cell \in DOMAIN cell_material' :
              (cell_material'[cell] = CellLiveColor) <=> is_live(cell[1], cell[2])']_vars

\* The entities setup_world spawns do carry the live colour iff is_live.
SetupMatchesLiveness ==
    [][SetupWorld /\ pc' = "idle" =>
          /\ DOMAIN cell_material' = Cells'
          /\ \A cell \in Cells' :
                (cell_material'[cell] = CellLiveColor) <=> is_live(cell[1], cell[2])']_vars

\* What render_world does assign: the dead colour iff is_live is true.
RenderInvertsLiveness ==
    [][RenderWorld =>
          \A cell \in DOMAIN cell_material' :
              (cell_material'[cell] = CellDeadColor) <=> is_live(cell[1], cell[2])']_vars

====
